---- MODULE Spec2Model ----
(***************************************************************************)
(* Model of caarlos0/transactional (src/typed.go): the typed Executor      *)
(* Typed.WrapFn, the function-only Executor Transactional.WrapFn, the HTTP *)
(* Mediator Transactional.Wrap and the shared rollback helper.             *)
(*                                                                         *)
(* Every inbound call is a request q with its own call stack of frames.    *)
(* The database (BeginTxx, Tx.Commit, Tx.Rollback), the units of work and  *)
(* the HTTP handlers are the environment: their outcomes are chosen        *)
(* nondeterministically from small sets.                                   *)
(***************************************************************************)
EXTENDS Integers, Sequences, FiniteSets, TLC

\* ---------------------------------------------------------------- bounds
MaxWraps == 2       \* Wrap invocations of a run, counting one outermost invocation
MaxVal == 1         \* result values of the typed unit of work: 0..MaxVal
MaxFaults == 1      \* faults of a run, all requests together: commit/rollback calls the
                    \* units of work issue themselves, cancellations of a
                    \* transaction's context, and driver failures of Commit/Rollback
MaxEvents == 9      \* begin, unit-of-work, commit and rollback events of a run, all
                    \* requests together

\* Inbound requests, each on its own call chain, and the handles BeginTxx
\* can hand out (one more than the requests, so that a second begin shows).
Reqs == {1}
Handles == 1..(Cardinality(Reqs) + 1)
MaxHandles == Cardinality(Handles)

\* ---------------------------------------------------------------- values
Nil == 0                  \* nil *sqlx.Tx / absent context value
Zero == 0                 \* zero value of the result type T
StatusNotFound == 404     \* http.StatusNotFound

\* An error is its Unwrap chain, outermost layer first; <<>> is nil.
\* A layer has a kind, an HTTP status (httperr layers only) and the message
\* text it embeds with %s (the rollback wrapper only).
NoErr == <<>>
Layer(k, s, t) == [kind |-> k, status |-> s, text |-> t]
Sentinel(k) == <<Layer(k, 0, <<>>)>>

ErrTxDone == Sentinel("sql.ErrTxDone")
ErrNoRows == Sentinel("sql.ErrNoRows")
ErrApp == Sentinel("app error")
ErrDriver == Sentinel("driver error")
ErrCanceled == Sentinel("context.Canceled")
\* an application error that wraps sql.ErrNoRows (fmt.Errorf("...: %w", sql.ErrNoRows))
ErrAppNoRows == <<Layer("app lookup failed", 0, <<>>)>> \o ErrNoRows

\* errors.Is(err, target) for a sentinel target: walks the Unwrap chain.
Is(err, target) == \E i \in 1..Len(err) : err[i] = target[1]

\* err.Error(): the message segments of the chain, outermost first.  An
\* httperr layer contributes no text of its own.
RECURSIVE ErrorText(_)
ErrorText(e) ==
    IF e = <<>> THEN <<>>
    ELSE (IF e[1].kind = "httperr" THEN <<>> ELSE <<e[1].kind>> \o e[1].text)
         \o ErrorText(Tail(e))

\* fmt.Errorf(msg + ": %w", err)
Errorf(msg, err) == <<Layer(msg, 0, <<>>)>> \o err

\* fmt.Errorf("failed to rollback: %s: %w", err.Error(), rerr): only rerr is
\* wrapped with %w; the original error enters as text.
ErrorfRollback(err, rerr) == <<Layer("failed to rollback", 0, ErrorText(err))>> \o rerr

\* httperr.Wrap(err, status)
HttperrWrap(err, status) == <<Layer("httperr", status, <<>>)>> \o err

\* ---------------------------------------------------------------- context
\* A context is the chain of WithValue pairs, oldest first; Background is <<>>.
Background == <<>>
TxKey == "txKey{}"
\* (mutant) the handle attached is the one kept in a field shared by all
\* requests, which holds the first transaction begun.
WithValue_Shared(ctx, key, val) == Append(ctx, [key |-> key, val |-> 1])

\* (mutant) the derived context does not carry the new pair.
WithValue_Drop(ctx, key, val) == ctx

WithValue(ctx, key, val) == Append(ctx, [key |-> key, val |-> val])

RECURSIVE Value(_, _)
Value(ctx, key) ==
    IF ctx = <<>> THEN Nil
    ELSE IF ctx[Len(ctx)].key = key THEN ctx[Len(ctx)].val
    ELSE Value(SubSeq(ctx, 1, Len(ctx) - 1), key)

\* ---------------------------------------------------------------- rollback / commit results
\* (mutant) an already finished transaction is reported like any other
\* rollback failure.
rollback_MaskDone(err, rerr) ==
    IF rerr # NoErr THEN ErrorfRollback(err, rerr)
    ELSE IF Is(err, ErrNoRows) THEN HttperrWrap(err, StatusNotFound) ELSE err

\* rollback(tx, err): the error returned, given the result rerr of tx.Rollback().
rollback(err, rerr) ==
    IF rerr # NoErr
    THEN IF Is(rerr, ErrTxDone) THEN err ELSE ErrorfRollback(err, rerr)
    ELSE IF Is(err, ErrNoRows) THEN HttperrWrap(err, StatusNotFound) ELSE err

\* (mutant) the begin failure is returned as it came, without the wrapper.
beginResult_Bare(berr) == berr

\* WrapFn after BeginTxx returned berr # nil: the error returned.
beginResult(berr) == Errorf("failed to begin transaction", berr)

\* (mutant) an already finished transaction fails the commit like any other cause.
commitResult_Strict(cerr) ==
    IF cerr # NoErr THEN Errorf("failed to commit transaction", cerr) ELSE NoErr

\* (mutant) the commit failure is returned as it came, without the wrapper.
commitResult_Bare(cerr) ==
    IF cerr # NoErr THEN (IF Is(cerr, ErrTxDone) THEN NoErr ELSE cerr) ELSE NoErr

\* WrapFn after tx.Commit() returned cerr: the error returned.
commitResult(cerr) ==
    IF cerr # NoErr
    THEN IF Is(cerr, ErrTxDone) THEN NoErr
         ELSE Errorf("failed to commit transaction", cerr)
    ELSE NoErr

\* (mutant) the result variable is reset before returning.
typedResult_Zero(r) == Zero

\* Typed.WrapFn after fn returned r: the result value returned with every
\* later return (r is returned as fn left it, also next to an error).
typedResult(r) == r

\* (mutant) the error of fn is ignored and the transaction committed.
termCall_AlwaysCommit(err) == "commit"

\* WrapFn after fn returned err: which call terminates the transaction.
termCall(err) == IF err # NoErr THEN "rollback" ELSE "commit"

\* A handle not yet finished: "open", or "canceled" once the context it was
\* begun with (the ctx of BeginTxx) is cancelled and database/sql has not
\* rolled it back yet.
Unfinished(st) == st \in {"open", "canceled"}

\* database/sql: Commit/Rollback on a finished transaction return ErrTxDone;
\* on an open one they succeed, or fail with a driver error, which leaves the
\* handle finished but neither committed nor rolled back.  Commit looks at the context first: on a
\* canceled handle it returns the context's error and leaves the handle to
\* the package; Rollback does not look at the context.
DbFinish(st, op) ==
    IF ~Unfinished(st)
    THEN {[err |-> ErrTxDone, st |-> st]}
    ELSE IF st = "canceled" /\ op = "commit"
    THEN {[err |-> ErrCanceled, st |-> st]}
    ELSE {[err |-> NoErr, st |-> IF op = "commit" THEN "committed" ELSE "rolledback"],
          [err |-> ErrDriver, st |-> "aborted"]}

UowErrors == {ErrNoRows, ErrApp, ErrAppNoRows}
Results == 0..MaxVal

\* ---------------------------------------------------------------- state
VARIABLES
    stack,      \* stack[q]: call stack of request q, innermost frame last
    out,        \* out[q]: what the outermost call of q returned
    nextTx,     \* next handle BeginTxx hands out
    hstate,     \* hstate[h]: "unused", "open", "canceled", "committed", "rolledback",
                \*            "aborted", "reaped" (rolled back by database/sql)
    howner,     \* howner[h]: the request whose Executor began h (0: none)
    hterm,      \* hterm[h]: effective terminations of h (open -> finished)
    nBegin,     \* nBegin[q]: BeginTxx calls issued by the call chain of q
    invs,       \* invs[q]: summaries of the returned Executor invocations of q
    wraps,      \* wraps[q]: summaries of the returned Wrap invocations of q
    rendered,   \* rendered[q]: errors handed to the error renderer eh
    trace       \* trace[q]: begin/fn/commit/rollback events of q, in order

vars == <<stack, out, nextTx, hstate, howner, hterm, nBegin, invs, wraps, rendered, trace>>

EntryKinds == {"Typed.WrapFn", "Transactional.WrapFn", "Wrap"}
IsExec(f) == f.kind \in {"Typed.WrapFn", "Transactional.WrapFn"}
IsUow(f) == f.kind \in {"fn", "Handler"}

Frame(kind, pc, rctx, ctx, tx) ==
    [kind |-> kind, pc |-> pc,
     rctx |-> rctx,         \* r.Context() of the request the frame received
     ctx |-> ctx,           \* the frame's local ctx variable
     tx |-> tx,             \* the frame's tx
     res |-> Zero,          \* r: the result variable
     err |-> NoErr,         \* err: the error the callee returned
     fnRes |-> Zero,        \* (history) the result the callee returned
     fnErr |-> NoErr,       \* (history) the error the callee returned
     nFn |-> 0,             \* unit-of-work invocations made by this frame
     nCommit |-> 0,         \* tx.Commit() calls issued by this frame
     nRollback |-> 0,       \* tx.Rollback() calls issued by this frame
     nested |-> 0]          \* nested Wrap invocations made by this frame

EntryFrame(kind) ==
    Frame(kind, IF kind = "Wrap" THEN "check" ELSE "begin", Background, Background, Nil)

Top(q) == stack[q][Len(stack[q])]
Running(q) == stack[q] # <<>>
WrapCount(s) == Cardinality({i \in 1..Len(s) : s[i].kind = "Wrap"})

OwnFinishes(t) ==
    Cardinality({i \in 1..Len(t) : t[i].by \in {"fn", "Handler"}
                                    /\ t[i].op \in {"commit", "rollback"}})

\* The bounds are budgets of the whole run, all requests together: the Wrap
\* invocations (each request's outermost one is always counted), the faults
\* and the events.
RECURSIVE Total(_, _)
Total(f, S) ==
    IF S = {} THEN 0
    ELSE LET x == CHOOSE y \in S : TRUE IN f[x] + Total(f, S \ {x})

TotalWraps ==
    Total([q \in DOMAIN stack |-> WrapCount(stack[q]) + Len(wraps[q])], DOMAIN stack)
TotalOwnFinishes ==
    Total([q \in DOMAIN trace |-> OwnFinishes(trace[q])], DOMAIN trace)

\* The handles whose context was cancelled while they were open and that
\* no call of the chain has rolled back since.
Cancelled == Cardinality({h \in DOMAIN hstate : hstate[h] \in {"canceled", "reaped"}})

\* The Commit/Rollback calls of t that failed in the driver.
DbFails(t) ==
    Cardinality({i \in 1..Len(t) : t[i].op \in {"commit", "rollback"} /\ Is(t[i].err, ErrDriver)})
TotalDbFails == Total([q \in DOMAIN trace |-> DbFails(trace[q])], DOMAIN trace)
TotalEvents == Total([q \in DOMAIN trace |-> Len(trace[q])], DOMAIN trace)

\* The faults of the run so far.
Faults == TotalOwnFinishes + Cancelled + TotalDbFails

\* The outcomes of a Commit/Rollback call: a driver failure is a fault.
DbOutcomes(st, op) ==
    IF Faults < MaxFaults THEN DbFinish(st, op)
    ELSE {o \in DbFinish(st, op) : ~Is(o.err, ErrDriver)}

\* An event of the trace: the call op issued by frame f, the at-th frame of
\* its stack, on handle tx, and the error the call returned.
Event(op, f, at, tx, err) == [op |-> op, by |-> f.kind, at |-> at, tx |-> tx, err |-> err]

\* The callee on top of s returns (res, err) to its caller: pop, and hand the
\* values to the caller, which moves on.  A handler that called a nested
\* http.Handler gets nothing back and keeps running.
Deliver(s, res, err) ==
    LET rest == SubSeq(s, 1, Len(s) - 1)
        c == rest[Len(rest)]
    IN IF rest = <<>> THEN rest
       ELSE IF IsUow(c) THEN rest
       ELSE [rest EXCEPT ![Len(rest)] =
                [c EXCEPT !.res = res, !.err = err, !.fnRes = res, !.fnErr = err,
                          !.pc = IF c.pc = "fn" THEN "after_fn"
                                 ELSE IF c.pc = "reuse_serve" THEN "after_serve"
                                 ELSE "after_wrapfn"]]

Returned(q, s, res, err) ==
    /\ stack' = [stack EXCEPT ![q] = Deliver(s, res, err)]
    /\ out' = IF Len(s) = 1
              THEN [out EXCEPT ![q] = [@ EXCEPT !.done = TRUE, !.res = res, !.err = err]]
              ELSE out

Init ==
    /\ stack \in [Reqs -> {<<EntryFrame(k)>> : k \in EntryKinds}]
    /\ out = [q \in Reqs |->
                [kind |-> stack[q][1].kind, done |-> FALSE, res |-> Zero, err |-> NoErr]]
    /\ nextTx = 1
    /\ hstate = [h \in Handles |-> "unused"]
    /\ howner = [h \in Handles |-> 0]
    /\ hterm = [h \in Handles |-> 0]
    /\ nBegin = [q \in Reqs |-> 0]
    /\ invs = [q \in Reqs |-> <<>>]
    /\ wraps = [q \in Reqs |-> <<>>]
    /\ rendered = [q \in Reqs |-> <<>>]
    /\ trace = [q \in Reqs |-> <<>>]

\* ---------------------------------------------------------------- database calls
\* tx.Commit() / tx.Rollback() on handle h with outcome o \in DbFinish(hstate[h], op).
DbApply(h, o) ==
    /\ hstate' = [hstate EXCEPT ![h] = o.st]
    /\ hterm' = [hterm EXCEPT ![h] = IF Unfinished(hstate[h]) /\ ~Unfinished(o.st) THEN @ + 1 ELSE @]

Counted(f, op) ==
    IF op = "commit" THEN [f EXCEPT !.nCommit = @ + 1] ELSE [f EXCEPT !.nRollback = @ + 1]

ExecSummary(f, began, termOp, termErr, st, res, err) ==
    [kind |-> f.kind, began |-> began, tx |-> f.tx, nFn |-> f.nFn,
     fnRes |-> f.fnRes, fnErr |-> f.fnErr,
     nCommit |-> f.nCommit, nRollback |-> f.nRollback,
     termOp |-> termOp, termErr |-> termErr, st |-> st,
     res |-> res, err |-> err]

\* ---------------------------------------------------------------- Executor
\* BeginTxx fails: return "failed to begin transaction".
ExecBeginFail(q) ==
    /\ Running(q) /\ IsExec(Top(q)) /\ Top(q).pc = "begin"
    /\ LET f == Top(q)
           err == beginResult(ErrDriver)
       IN /\ nBegin' = [nBegin EXCEPT ![q] = @ + 1]
          /\ trace' = [trace EXCEPT ![q] = Append(@, Event("begin", f, Len(stack[q]), Nil, ErrDriver))]
          /\ invs' = [invs EXCEPT ![q] =
                        Append(@, ExecSummary(f, FALSE, "none", NoErr, "unused", Zero, err))]
          /\ Returned(q, stack[q], Zero, err)
    /\ UNCHANGED <<nextTx, hstate, howner, hterm, wraps, rendered>>

\* BeginTxx succeeds and fn(tx) is invoked.  Called from Wrap, fn is the
\* closure that attaches tx to Wrap's ctx variable and serves the handler
\* with r.WithContext(ctx); called directly, fn is the caller's function.
ExecBeginOk(q) ==
    /\ Running(q) /\ IsExec(Top(q)) /\ Top(q).pc = "begin"
    /\ nextTx \in DOMAIN hstate
    /\ LET s == stack[q]
           n == Len(s)
           f == s[n]
           h == nextTx
           g == [f EXCEPT !.tx = h, !.pc = "fn", !.nFn = @ + 1]
           fromWrap == n > 1 /\ s[n - 1].kind = "Wrap"
           ctx == IF fromWrap THEN WithValue(s[n - 1].ctx, TxKey, h) ELSE Background
           callee == IF fromWrap THEN Frame("Handler", "run", ctx, ctx, h)
                     ELSE Frame("fn", "run", Background, Background, h)
           s1 == IF fromWrap THEN [s EXCEPT ![n - 1].ctx = ctx] ELSE s
       IN /\ stack' = [stack EXCEPT ![q] = Append([s1 EXCEPT ![n] = g], callee)]
          /\ nextTx' = h + 1
          /\ hstate' = [hstate EXCEPT ![h] = "open"]
          /\ howner' = [howner EXCEPT ![h] = q]
          /\ nBegin' = [nBegin EXCEPT ![q] = @ + 1]
          /\ trace' = [trace EXCEPT ![q] =
                         @ \o <<Event("begin", f, Len(stack[q]), h, NoErr), Event("fn", f, Len(stack[q]), h, NoErr)>>]
    /\ UNCHANGED <<out, hterm, invs, wraps, rendered>>

\* (mutant) the error path returns the error of fn without rolling back.
ExecTerminate_SkipRollback(q) ==
    /\ Running(q) /\ IsExec(Top(q)) /\ Top(q).pc = "after_fn"
    /\ Top(q).err # NoErr
    /\ LET f == Top(q)
       IN /\ invs' = [invs EXCEPT ![q] =
                        Append(@, ExecSummary(f, TRUE, "none", NoErr, hstate[f.tx], f.res, f.err))]
          /\ Returned(q, stack[q], f.res, f.err)
    /\ UNCHANGED <<nextTx, hstate, howner, hterm, nBegin, wraps, rendered, trace>>

\* (mutant) a deferred tx.Rollback() runs after the commit as well.
ExecTerminate_DeferredRollback(q) ==
    /\ Running(q) /\ IsExec(Top(q)) /\ Top(q).pc = "after_fn"
    /\ LET f == Top(q)
           op == termCall(f.err)
       IN \E o \in DbOutcomes(hstate[f.tx], op) :
             LET err == IF op = "rollback" THEN rollback(f.err, o.err)
                        ELSE commitResult(o.err)
                 res == IF f.kind = "Typed.WrapFn" THEN typedResult(f.res) ELSE Zero
                 again == op = "commit" /\ o.st # "open"
                 g == IF again THEN Counted(Counted(f, op), "rollback") ELSE Counted(f, op)
                 evs == <<Event(op, f, Len(stack[q]), f.tx, o.err)>>
                        \o (IF again
                            THEN <<Event("rollback", f, Len(stack[q]), f.tx, ErrTxDone)>>
                            ELSE <<>>)
             IN /\ DbApply(f.tx, o)
                /\ trace' = [trace EXCEPT ![q] = @ \o evs]
                /\ invs' = [invs EXCEPT ![q] =
                              Append(@, ExecSummary(g, TRUE, op, o.err, o.st, res, err))]
                /\ Returned(q, stack[q], res, err)
    /\ UNCHANGED <<nextTx, howner, nBegin, wraps, rendered>>

\* fn returned (r, err): roll back on error, commit otherwise, and return.
ExecTerminate(q) ==
    /\ Running(q) /\ IsExec(Top(q)) /\ Top(q).pc = "after_fn"
    /\ LET f == Top(q)
           op == termCall(f.err)
       IN \E o \in DbOutcomes(hstate[f.tx], op) :
             LET err == IF op = "rollback" THEN rollback(f.err, o.err)
                        ELSE commitResult(o.err)
                 res == IF f.kind = "Typed.WrapFn" THEN typedResult(f.res) ELSE Zero
                 g == Counted(f, op)
             IN /\ DbApply(f.tx, o)
                /\ trace' = [trace EXCEPT ![q] = Append(@, Event(op, f, Len(stack[q]), f.tx, o.err))]
                /\ invs' = [invs EXCEPT ![q] =
                              Append(@, ExecSummary(g, TRUE, op, o.err, o.st, res, err))]
                /\ Returned(q, stack[q], res, err)
    /\ UNCHANGED <<nextTx, howner, nBegin, wraps, rendered>>

\* ---------------------------------------------------------------- units of work
\* The unit of work finishes the transaction itself.
UowFinish(q) ==
    /\ Running(q) /\ IsUow(Top(q)) /\ Top(q).pc = "run"
    /\ Faults < MaxFaults
    /\ LET f == Top(q)
       IN \E op \in {"commit", "rollback"} : \E o \in DbOutcomes(hstate[f.tx], op) :
             /\ DbApply(f.tx, o)
             /\ stack' = [stack EXCEPT ![q][Len(stack[q])] = Counted(f, op)]
             /\ trace' = [trace EXCEPT ![q] = Append(@, Event(op, f, Len(stack[q]), f.tx, o.err))]
    /\ UNCHANGED <<out, nextTx, howner, nBegin, invs, wraps, rendered>>

\* A handler serves a nested Wrap handler with the request it received.
UowCallWrap(q) ==
    /\ Running(q) /\ Top(q).kind = "Handler" /\ Top(q).pc = "run"
    /\ TotalWraps < MaxWraps + Cardinality(DOMAIN stack) - 1
    /\ LET f == Top(q)
           s == [stack[q] EXCEPT ![Len(stack[q])].nested = @ + 1]
       IN stack' = [stack EXCEPT ![q] =
                       Append(s, Frame("Wrap", "check", f.rctx, Background, Nil))]
    /\ UNCHANGED <<out, nextTx, hstate, howner, hterm, nBegin, invs, wraps, rendered, trace>>

\* The unit of work returns a result (typed variant only) and an error or nil.
UowReturn(q) ==
    /\ Running(q) /\ IsUow(Top(q)) /\ Top(q).pc = "run"
    /\ LET s == stack[q]
           f == Top(q)
           typed == Len(s) > 1 /\ s[Len(s) - 1].kind = "Typed.WrapFn"
       IN \E res \in (IF typed THEN Results ELSE {Zero}) :
          \E err \in {NoErr} \cup UowErrors :
             /\ trace' = [trace EXCEPT ![q] = Append(@, Event("fn_return", f, Len(stack[q]), f.tx, err))]
             /\ Returned(q, s, res, err)
    /\ UNCHANGED <<nextTx, hstate, howner, hterm, nBegin, invs, wraps, rendered>>

\* ---------------------------------------------------------------- context cancellation
\* The context a transaction of q was begun with (the ctx handed to BeginTxx:
\* the caller's ctx, or r.Context() on the fresh path) is cancelled while
\* the transaction is open.
CtxCancel(q) ==
    /\ Faults < MaxFaults
    /\ \E h \in DOMAIN hstate :
          /\ howner[h] = q /\ hstate[h] = "open"
          /\ hstate' = [hstate EXCEPT ![h] = "canceled"]
    /\ UNCHANGED <<stack, out, nextTx, howner, hterm, nBegin, invs, wraps, rendered, trace>>

\* database/sql rolls back by itself a transaction whose context is
\* cancelled; no frame of the call chain issues this rollback.
SqlAwaitDone(q) ==
    /\ \E h \in DOMAIN hstate :
          /\ howner[h] = q /\ hstate[h] = "canceled"
          /\ hstate' = [hstate EXCEPT ![h] = "reaped"]
          /\ hterm' = [hterm EXCEPT ![h] = @ + 1]
    /\ UNCHANGED <<stack, out, nextTx, howner, nBegin, invs, wraps, rendered, trace>>

\* ---------------------------------------------------------------- Mediator
\* httperr.NewFWithHandler: the errors handed to the error handler eh when
\* the wrapped function returned err.
renderCalls(err) == IF err # NoErr THEN <<err>> ELSE <<>>

WrapSummary(f, path, termErr, err) ==
    [path |-> path, tx |-> f.tx, rctx |-> f.rctx, ctx |-> f.ctx, herr |-> f.fnErr,
     nCommit |-> f.nCommit, nRollback |-> f.nRollback, termErr |-> termErr,
     err |-> err, shown |-> renderCalls(err)]

\* httperr.NewFWithHandler: the wrapped function returned err; a non-nil err
\* goes to the error handler eh, and the http.Handler returns nothing.
WrapReturn(q, f, path, termErr, err) ==
    /\ rendered' = [rendered EXCEPT ![q] = @ \o renderCalls(err)]
    /\ wraps' = [wraps EXCEPT ![q] = Append(@, WrapSummary(f, path, termErr, err))]
    /\ Returned(q, stack[q], Zero, err)

\* ctx.Value(txKey{}) is a handle: serve the handler with it.
WrapReuse(q) ==
    /\ Running(q) /\ Top(q).kind = "Wrap" /\ Top(q).pc = "check"
    /\ Value(Top(q).rctx, TxKey) # Nil
    /\ LET f == Top(q)
           tx == Value(f.rctx, TxKey)
           g == [f EXCEPT !.ctx = f.rctx, !.tx = tx, !.pc = "reuse_serve", !.nFn = @ + 1]
       IN /\ stack' = [stack EXCEPT ![q] =
                          Append([stack[q] EXCEPT ![Len(stack[q])] = g],
                                 Frame("Handler", "run", f.rctx, f.rctx, tx))]
          /\ trace' = [trace EXCEPT ![q] = Append(@, Event("fn", f, Len(stack[q]), tx, NoErr))]
    /\ UNCHANGED <<out, nextTx, hstate, howner, hterm, nBegin, invs, wraps, rendered>>

\* ctx.Value(txKey{}) is nil: delegate to Transactional.WrapFn.
WrapFresh(q) ==
    /\ Running(q) /\ Top(q).kind = "Wrap" /\ Top(q).pc = "check"
    /\ Value(Top(q).rctx, TxKey) = Nil
    /\ LET f == Top(q)
           g == [f EXCEPT !.ctx = f.rctx, !.pc = "fresh_wrapfn"]
       IN stack' = [stack EXCEPT ![q] =
                       Append([stack[q] EXCEPT ![Len(stack[q])] = g],
                              Frame("Transactional.WrapFn", "begin", Background, f.rctx, Nil))]
    /\ UNCHANGED <<out, nextTx, hstate, howner, hterm, nBegin, invs, wraps, rendered, trace>>

\* (mutant) the reuse path leaves the rollback to the outer invocation.
WrapReuseFail_NoRollback(q) ==
    /\ Running(q) /\ Top(q).kind = "Wrap" /\ Top(q).pc = "after_serve"
    /\ Top(q).err # NoErr
    /\ WrapReturn(q, Top(q), "reuse", NoErr, Top(q).err)
    /\ UNCHANGED <<nextTx, hstate, howner, hterm, nBegin, invs, trace>>

\* Reuse path, the handler failed: rollback(tx, err).
WrapReuseFail(q) ==
    /\ Running(q) /\ Top(q).kind = "Wrap" /\ Top(q).pc = "after_serve"
    /\ Top(q).err # NoErr
    /\ LET f == Top(q)
       IN \E o \in DbOutcomes(hstate[f.tx], "rollback") :
             /\ DbApply(f.tx, o)
             /\ trace' = [trace EXCEPT ![q] = Append(@, Event("rollback", f, Len(stack[q]), f.tx, o.err))]
             /\ WrapReturn(q, Counted(f, "rollback"), "reuse", o.err, rollback(f.err, o.err))
    /\ UNCHANGED <<nextTx, howner, nBegin, invs>>

\* (mutant) the reuse path commits the handle itself when its handler succeeds.
WrapReuseOk_Commits(q) ==
    /\ Running(q) /\ Top(q).kind = "Wrap" /\ Top(q).pc = "after_serve"
    /\ Top(q).err = NoErr
    /\ LET f == Top(q)
       IN \E o \in DbOutcomes(hstate[f.tx], "commit") :
             /\ DbApply(f.tx, o)
             /\ trace' = [trace EXCEPT ![q] = Append(@, Event("commit", f, Len(stack[q]), f.tx, o.err))]
             /\ WrapReturn(q, Counted(f, "commit"), "reuse", o.err, NoErr)
    /\ UNCHANGED <<nextTx, howner, nBegin, invs>>

\* Reuse path, the handler succeeded: return nil.
WrapReuseOk(q) ==
    /\ Running(q) /\ Top(q).kind = "Wrap" /\ Top(q).pc = "after_serve"
    /\ Top(q).err = NoErr
    /\ WrapReturn(q, Top(q), "reuse", NoErr, NoErr)
    /\ UNCHANGED <<nextTx, hstate, howner, hterm, nBegin, invs, trace>>

\* Fresh path: return what Transactional.WrapFn returned.
WrapFreshDone(q) ==
    /\ Running(q) /\ Top(q).kind = "Wrap" /\ Top(q).pc = "after_wrapfn"
    /\ WrapReturn(q, Top(q), "fresh", NoErr, Top(q).err)
    /\ UNCHANGED <<nextTx, hstate, howner, hterm, nBegin, invs, trace>>

\* ---------------------------------------------------------------- specification
Next ==
    \E q \in DOMAIN stack :
      /\ TotalEvents < MaxEvents
      /\
        \/ ExecBeginFail(q)
        \/ ExecBeginOk(q)
        \/ ExecTerminate(q)
        \/ UowFinish(q)
        \/ UowCallWrap(q)
        \/ UowReturn(q)
        \/ WrapReuse(q)
        \/ WrapFresh(q)
        \/ WrapReuseFail(q)
        \/ WrapReuseOk(q)
        \/ WrapFreshDone(q)
        \/ CtxCancel(q)
        \/ SqlAwaitDone(q)

Spec == Init /\ [][Next]_vars

\* Two inbound requests served concurrently by the same Mediator (Wrap): each
\* runs on its own goroutine, and their steps interleave in any order.
ConcReqs == {1, 2}
ConcHandles == 1..(Cardinality(ConcReqs) + 1)

InitConc ==
    /\ stack = [q \in ConcReqs |-> <<EntryFrame("Wrap")>>]
    /\ out = [q \in ConcReqs |->
                [kind |-> "Wrap", done |-> FALSE, res |-> Zero, err |-> NoErr]]
    /\ nextTx = 1
    /\ hstate = [h \in ConcHandles |-> "unused"]
    /\ howner = [h \in ConcHandles |-> 0]
    /\ hterm = [h \in ConcHandles |-> 0]
    /\ nBegin = [q \in ConcReqs |-> 0]
    /\ invs = [q \in ConcReqs |-> <<>>]
    /\ wraps = [q \in ConcReqs |-> <<>>]
    /\ rendered = [q \in ConcReqs |-> <<>>]
    /\ trace = [q \in ConcReqs |-> <<>>]

SpecConc == InitConc /\ [][Next]_vars

TypeOK ==
    /\ nextTx \in 1..(MaxHandles + 1)
    /\ \A h \in Handles : hstate[h] \in {"unused", "open", "canceled", "committed", "rolledback", "aborted", "reaped"}
    /\ \A q \in Reqs : out[q].done => ~Running(q)

\* ---------------------------------------------------------------- claims
\* The returned Executor invocations, and the returned Wrap invocations.
ExecReturns == UNION {{invs[q][i] : i \in 1..Len(invs[q])} : q \in DOMAIN invs}
WrapReturns == UNION {{wraps[q][i] : i \in 1..Len(wraps[q])} : q \in DOMAIN wraps}
Other(e) == e # NoErr /\ ~Is(e, ErrTxDone)

\* C1 (as claimed): every Executor invocation whose begin succeeded has
\* finished its handle exactly once when it returns, whatever the unit of
\* work and the commit/rollback returned: never zero times, never twice.
C1_TerminatedAtReturn ==
    /\ \A v \in ExecReturns : v.began => (~Unfinished(v.st) /\ hterm[v.tx] = 1)
    /\ \A h \in Handles : hterm[h] <= 1

\* C1 (amended): every Executor invocation whose begin succeeded has, when
\* it returns, issued exactly one terminating call (one commit or one
\* rollback, never none and never two) on its handle, and no handle is ever
\* finished twice.  At the return the handle is finished, exactly once,
\* except after a commit that failed with the error of the cancelled context
\* of the transaction: then the invocation returns "failed to commit
\* transaction" with the handle still unfinished and issues no rollback,
\* and only database/sql can finish the handle afterwards.  A finished
\* handle is committed or rolled back unless a commit or rollback of the
\* chain failed in the driver.
C1_TerminatedOnce ==
    /\ \A q \in DOMAIN invs : \A i \in 1..Len(invs[q]) :
          LET v == invs[q][i]
          IN v.began =>
                /\ v.nCommit + v.nRollback = 1
                /\ IF Unfinished(v.st)
                   THEN /\ v.st = "canceled" /\ v.termOp = "commit" /\ v.termErr = ErrCanceled
                        /\ v.err = Errorf("failed to commit transaction", ErrCanceled)
                        /\ v.nRollback = 0
                        /\ hstate[v.tx] \in {"canceled", "reaped"}
                        /\ hterm[v.tx] = (IF hstate[v.tx] = "reaped" THEN 1 ELSE 0)
                   ELSE /\ hterm[v.tx] = 1 /\ hstate[v.tx] = v.st
                        /\ v.st \in {"committed", "rolledback", "reaped", "aborted"}
                        /\ v.st = "aborted" =>
                              \E k \in 1..Len(trace[q]) :
                                  /\ trace[q][k].tx = v.tx
                                  /\ trace[q][k].op \in {"commit", "rollback"}
                                  /\ Is(trace[q][k].err, ErrDriver)
    /\ \A h \in Handles : hterm[h] <= 1

\* C1 witness: an invocation returned the wrapped error of the cancelled
\* context after its one commit call, leaving the handle unfinished, and
\* database/sql rolled the handle back afterwards.
C1_Witness ==
    \E v \in ExecReturns :
        /\ v.began /\ v.st = "canceled" /\ v.termErr = ErrCanceled
        /\ v.nCommit = 1 /\ v.nRollback = 0
        /\ hstate[v.tx] = "reaped" /\ hterm[v.tx] = 1

\* C2: when begin, the unit of work and commit all succeed, the Executor
\* returns a nil error and exactly the result the unit of work produced.
C2_SuccessResult ==
    \A v \in ExecReturns :
        (v.began /\ v.fnErr = NoErr /\ v.termOp = "commit" /\ v.termErr = NoErr)
            => (v.err = NoErr /\ v.res = v.fnRes /\ v.st = "committed")

\* C2 witness: a typed invocation committed and returned a non-zero result.
C2_Witness ==
    \E v \in ExecReturns :
        /\ v.kind = "Typed.WrapFn" /\ v.began /\ v.fnErr = NoErr
        /\ v.termOp = "commit" /\ v.termErr = NoErr /\ v.fnRes # Zero /\ v.res = v.fnRes

\* C3: an Executor invocation whose unit of work failed has issued exactly
\* one rollback and no commit when it returns.
C3_FailureRollsBack ==
    \A v \in ExecReturns :
        (v.began /\ v.fnErr # NoErr) => (v.nRollback = 1 /\ v.nCommit = 0)

\* C3 witness: an invocation returned after its unit of work failed and its
\* rollback went through.
C3_Witness ==
    \E v \in ExecReturns :
        v.began /\ v.fnErr # NoErr /\ v.nRollback = 1 /\ v.termErr = NoErr
        /\ v.st = "rolledback"

\* C4: a chain of nested Wrap invocations on one request context issues at
\* most one begin, exactly one once the chain has returned, and never holds
\* two open handles; every reuse-path invocation ran on the handle begun by
\* the chain.
C4_SingleBegin ==
    \A q \in DOMAIN out :
        out[q].kind = "Wrap" =>
            /\ nBegin[q] <= 1
            /\ out[q].done => nBegin[q] = 1
            /\ Cardinality({h \in Handles : howner[h] = q}) <= 1
            /\ \A i \in 1..Len(wraps[q]) :
                  wraps[q][i].path = "reuse" => howner[wraps[q][i].tx] = q

\* C4 witness: a chain with a reuse-path invocation inside has returned.
C4_Witness ==
    \E q \in DOMAIN out :
        /\ out[q].kind = "Wrap" /\ out[q].done /\ nBegin[q] = 1
        /\ \E i \in 1..Len(wraps[q]) : wraps[q][i].path = "reuse"

\* C5 (as claimed): a reuse-path invocation whose handler failed issues no
\* rollback; the chain's only rollback call comes from the outer invocation.
C5_InnerNeverRollsBack ==
    \A w \in WrapReturns : (w.path = "reuse" /\ w.herr # NoErr) => w.nRollback = 0

\* C5 (amended): a reuse-path invocation whose handler failed issues exactly
\* one rollback, and no commit, on the shared handle itself.  The handle is
\* still finished at most once: the outer invocation issues its own single
\* terminating call, and when the inner rollback went through that call
\* fails with "already finished" and the outer invocation returns what its
\* own handler returned.
C5_InnerRollsBack ==
    \A w \in WrapReturns :
        (w.path = "reuse" /\ w.herr # NoErr) =>
            /\ w.nRollback = 1 /\ w.nCommit = 0
            /\ w.err = rollback(w.herr, w.termErr) /\ w.shown = <<w.err>>
            /\ hterm[w.tx] <= 1
            /\ \A v \in ExecReturns :
                  (v.began /\ v.tx = w.tx) =>
                      /\ v.nCommit + v.nRollback = 1
                      /\ w.termErr = NoErr => (Is(v.termErr, ErrTxDone) /\ v.err = v.fnErr)

\* C5 witness: the inner rollback went through, the outer handler failed too,
\* and the outer rollback found the handle already finished.
C5_Witness ==
    \E w \in WrapReturns : \E v \in ExecReturns :
        /\ w.path = "reuse" /\ w.herr # NoErr /\ w.nRollback = 1 /\ w.termErr = NoErr
        /\ v.began /\ v.tx = w.tx /\ v.fnErr # NoErr /\ v.nRollback = 1
        /\ Is(v.termErr, ErrTxDone) /\ hstate[w.tx] = "rolledback"

\* C6: whenever the rollback call fails with "already finished", in an
\* Executor or on the reuse path, the error returned is the triggering error
\* itself, unchanged.
C6_DoneKeepsOriginal ==
    /\ \A v \in ExecReturns :
          (v.termOp = "rollback" /\ Is(v.termErr, ErrTxDone)) => v.err = v.fnErr
    /\ \A w \in WrapReturns :
          (w.nRollback = 1 /\ Is(w.termErr, ErrTxDone)) => w.err = w.herr

\* C6 witness: a no-rows error came back unchanged from a rollback that found
\* the handle already finished.
C6_Witness ==
    \E v \in ExecReturns :
        /\ v.termOp = "rollback" /\ Is(v.termErr, ErrTxDone)
        /\ v.fnErr = ErrNoRows /\ v.err = ErrNoRows

\* C7 (as claimed): whenever the rollback call fails with another cause, the
\* error returned is recognisable (errors.Is) as the rollback failure and as
\* every cause the triggering error was recognisable as.
C7_CompoundWrapsBoth ==
    \A v \in ExecReturns :
        (v.termOp = "rollback" /\ Other(v.termErr)) =>
            /\ Is(v.err, ErrDriver)
            /\ \A t \in {ErrNoRows, ErrApp} : Is(v.fnErr, t) => Is(v.err, t)

\* C8 (as claimed): whenever the rollback call succeeds, the error returned
\* by the Executor is the triggering error itself, unchanged, for every
\* triggering error.
C8_RollbackOkKeepsOriginal ==
    \A v \in ExecReturns :
        (v.termOp = "rollback" /\ v.termErr = NoErr) => v.err = v.fnErr

\* C9: when the unit of work succeeded and commit fails with "already
\* finished", the Executor returns a nil error with the result of the unit of
\* work, and issues no rollback.
C9_CommitDoneIsSuccess ==
    \A v \in ExecReturns :
        (v.began /\ v.fnErr = NoErr /\ Is(v.termErr, ErrTxDone)) =>
            /\ v.termOp = "commit"
            /\ v.err = NoErr /\ v.res = v.fnRes
            /\ v.nRollback = 0 /\ v.nCommit = 1

\* C9 witness: a typed invocation returned a non-zero result and no error
\* after its commit found the handle already finished.
C9_Witness ==
    \E v \in ExecReturns :
        /\ v.kind = "Typed.WrapFn" /\ v.fnErr = NoErr /\ v.termOp = "commit"
        /\ Is(v.termErr, ErrTxDone) /\ v.err = NoErr /\ v.res # Zero

\* C10: when the unit of work succeeded and commit fails with another cause,
\* a driver failure or the error of a cancelled context, the Executor
\* returns "failed to commit transaction" wrapping the commit failure,
\* together with the result of the unit of work, and issues no rollback: the
\* handle stays as the failed commit left it.
C10_CommitFailureWrapped ==
    \A v \in ExecReturns :
        (v.began /\ v.fnErr = NoErr /\ Other(v.termErr)) =>
            /\ v.termOp = "commit"
            /\ v.err = Errorf("failed to commit transaction", v.termErr)
            /\ \A t \in {ErrDriver, ErrCanceled} : Is(v.termErr, t) => Is(v.err, t)
            /\ Is(v.err, ErrDriver) \/ Is(v.err, ErrCanceled)
            /\ v.res = v.fnRes
            /\ v.nRollback = 0 /\ v.nCommit = 1
            /\ v.st \in {"canceled", "aborted"}

\* C10 witness: a typed invocation returned the wrapped commit failure next
\* to a non-zero result, the handle neither committed nor rolled back.
C10_Witness ==
    \E v \in ExecReturns :
        /\ v.kind = "Typed.WrapFn" /\ v.fnErr = NoErr /\ v.termOp = "commit"
        /\ Other(v.termErr) /\ v.err # NoErr /\ v.res # Zero /\ v.nRollback = 0
        /\ hstate[v.tx] \in {"canceled", "aborted"}

\* C11: when begin fails the Executor returns "failed to begin transaction"
\* wrapping the begin failure (and the zero result) at once: the unit of work
\* is never invoked and the invocation issues neither commit nor rollback,
\* so its begin is the last event of the invocation.
C11_BeginFailureReturns ==
    /\ \A v \in ExecReturns :
          ~v.began =>
              /\ v.err = Errorf("failed to begin transaction", ErrDriver)
              /\ Is(v.err, ErrDriver)
              /\ v.res = Zero
              /\ v.nFn = 0 /\ v.nCommit = 0 /\ v.nRollback = 0
    /\ \A q \in DOMAIN trace : \A i \in 1..Len(trace[q]) :
          (trace[q][i].op = "begin" /\ trace[q][i].err # NoErr) =>
              \A j \in (i + 1)..Len(trace[q]) :
                  ~(trace[q][j].at >= trace[q][i].at
                    /\ trace[q][j].op \in {"fn", "fn_return", "commit", "rollback"})

\* C11 witness: a Wrap request whose begin failed has returned, the wrapped
\* begin failure handed to the error renderer and no handle ever opened.
C11_Witness ==
    \E q \in DOMAIN out :
        /\ out[q].kind = "Wrap" /\ out[q].done
        /\ \E v \in ExecReturns : ~v.began /\ rendered[q] = <<v.err>>
        /\ \A h \in Handles : hstate[h] = "unused"

\* An error that carries the "not found" HTTP status.
NotFound(e) == \E i \in 1..Len(e) : e[i].kind = "httperr" /\ e[i].status = StatusNotFound
Settled(rerr) == rerr = NoErr \/ Is(rerr, ErrTxDone)

\* C12 (as claimed): in the Mediator, on the fresh and on the reuse path,
\* whenever the handler fails with an error that is sql.ErrNoRows and the
\* rollback succeeds or finds the handle already finished, the error handed
\* to the error renderer is a "not found" failure, never the raw error.
C12_NoRowsRenderedNotFound ==
    /\ \A q \in DOMAIN out : \A i \in 1..Len(invs[q]) :
          LET v == invs[q][i]
          IN (out[q].kind = "Wrap" /\ v.began /\ Is(v.fnErr, ErrNoRows)
              /\ v.termOp = "rollback" /\ Settled(v.termErr)) => NotFound(v.err)
    /\ \A w \in WrapReturns :
          (w.path = "reuse" /\ Is(w.herr, ErrNoRows) /\ Settled(w.termErr))
              => NotFound(w.err)
    /\ \A q \in DOMAIN rendered : \A i \in 1..Len(rendered[q]) :
          Is(rendered[q][i], ErrNoRows) => NotFound(rendered[q][i])

\* C13 (as claimed): on the fresh path the error renderer is invoked exactly
\* when the mediated outcome is a failure.  It is invoked exactly when the
\* Executor returned an error, and with that error; a handler that succeeds
\* leads to one commit call and no rollback, and then the renderer stays
\* silent exactly when the transaction ended committed (a commit that fails
\* is a failure and is rendered); a handler error that is not sql.ErrNoRows,
\* with the rollback going through, reaches the renderer unchanged.
C13_RendererOnFailureOnly ==
    \A q \in DOMAIN wraps : \A i \in 1..Len(wraps[q]) : \A j \in 1..Len(invs[q]) :
        LET w == wraps[q][i]
            v == invs[q][j]
        IN w.path = "fresh" =>
              /\ w.shown = (IF v.err # NoErr THEN <<v.err>> ELSE <<>>)
              /\ (v.began /\ v.fnErr = NoErr) =>
                    /\ v.termOp = "commit" /\ v.nCommit = 1 /\ v.nRollback = 0
                    /\ (w.shown = <<>>) <=> (v.st = "committed")
              /\ (v.began /\ v.fnErr # NoErr /\ ~Is(v.fnErr, ErrNoRows) /\ v.termErr = NoErr)
                    => w.shown = <<v.fnErr>>

\* C14 (as claimed): whenever the unit of work of Typed.WrapFn fails, the
\* result returned to the caller is the zero value of the result type,
\* whatever result the unit of work returned next to its error.
C14_FailureReturnsZero ==
    \A v \in ExecReturns :
        (v.kind = "Typed.WrapFn" /\ v.began /\ v.fnErr # NoErr) => v.res = Zero

\* The step in which a reuse-path invocation of q returns after its handler
\* succeeded.
ReuseOkReturns(q) ==
    /\ Len(wraps'[q]) = Len(wraps[q]) + 1
    /\ wraps'[q][Len(wraps'[q])].path = "reuse"
    /\ wraps'[q][Len(wraps'[q])].herr = NoErr

\* C15: a reuse-path invocation whose handler succeeded issues neither commit
\* nor rollback and returns nil without calling the renderer: its return
\* leaves every handle as it was (an open handle stays open), and no Wrap
\* invocation ever issues a commit, which is left to the Executor invocation
\* that began the handle.
C15_ReuseSuccessLeavesOpen ==
    /\ [](\A w \in WrapReturns :
            (w.path = "reuse" /\ w.herr = NoErr) =>
                (w.nCommit = 0 /\ w.nRollback = 0 /\ w.err = NoErr /\ w.shown = <<>>))
    /\ [](\A q \in DOMAIN trace : \A i \in 1..Len(trace[q]) :
            trace[q][i].op = "commit" => trace[q][i].by # "Wrap")
    /\ [][\A q \in DOMAIN wraps :
            ReuseOkReturns(q) =>
                (hstate' = hstate /\ hterm' = hterm /\ trace' = trace /\ rendered' = rendered)]_vars

\* C15 witness: an inner reuse-path invocation succeeded and left the handle
\* open, nobody else touched it, and the outer invocation then committed it.
C15_Witness ==
    \E q \in DOMAIN wraps : \E w \in WrapReturns : \E v \in ExecReturns :
        /\ w.path = "reuse" /\ w.herr = NoErr /\ w.nCommit = 0 /\ w.nRollback = 0
        /\ v.began /\ v.tx = w.tx /\ howner[v.tx] = q /\ OwnFinishes(trace[q]) = 0
        /\ v.termOp = "commit" /\ v.termErr = NoErr /\ hstate[v.tx] = "committed"

\* The frames of s that both s and t hold (a step pushes or pops at most one).
Kept(s, t) == 1..(IF Len(s) < Len(t) THEN Len(s) ELSE Len(t))

\* C16: on the fresh path the handler runs with a request whose context is
\* the inbound context extended by exactly the newly begun handle, the one
\* it also gets as its tx argument; the inbound request's own context carries
\* no handle before, while and after the handler runs, and no frame's request
\* context ever changes.
C16_FreshContext ==
    /\ [](\A q \in DOMAIN stack : \A i \in 1..Len(stack[q]) :
            LET s == stack[q]
            IN (s[i].kind = "Wrap" /\ s[i].pc \in {"fresh_wrapfn", "after_wrapfn"}) =>
                  /\ Value(s[i].rctx, TxKey) = Nil
                  /\ (i + 2 <= Len(s)) =>
                        /\ s[i + 2].kind = "Handler"
                        /\ s[i + 2].tx = s[i + 1].tx /\ s[i + 2].tx # Nil
                        /\ howner[s[i + 2].tx] = q
                        /\ Value(s[i + 2].rctx, TxKey) = s[i + 2].tx
                        /\ s[i + 2].rctx = Append(s[i].rctx, [key |-> TxKey, val |-> s[i + 2].tx]))
    /\ [](\A w \in WrapReturns : w.path = "fresh" => Value(w.rctx, TxKey) = Nil)
    /\ [][\A q \in DOMAIN stack : \A i \in Kept(stack[q], stack'[q]) :
            stack'[q][i].rctx = stack[q][i].rctx]_vars

\* C16 witness: a fresh-path handler is running with the derived context
\* while the inbound request of its Wrap invocation carries no handle.
C16_Witness ==
    \E q \in DOMAIN stack :
        /\ Len(stack[q]) = 3
        /\ stack[q][1].kind = "Wrap" /\ stack[q][1].pc = "fresh_wrapfn"
        /\ stack[q][3].kind = "Handler" /\ stack[q][3].pc = "run"
        /\ Value(stack[q][3].rctx, TxKey) = stack[q][3].tx
        /\ hstate[stack[q][3].tx] = "open"
        /\ Value(stack[q][1].rctx, TxKey) = Nil

\* C18 (as claimed): whenever an Executor invocation whose begin succeeded
\* returns no error, its handle ended committed: success is never reported
\* for a transaction that was rolled back.
C18_SuccessMeansCommitted ==
    \A v \in ExecReturns : (v.began /\ v.err = NoErr) => v.st = "committed"

\* The events an Executor invocation issues itself; ByExecAt(t, d) are those
\* of the invocation that is the d-th frame of its stack.
ExecEvent(e) == e.by \in {"Typed.WrapFn", "Transactional.WrapFn"}
ByExecAt(t, d) == {i \in 1..Len(t) : ExecEvent(t[i]) /\ t[i].at = d}

\* C19: in every Executor invocation the begin comes first; the unit of work
\* is invoked once, right after a begin that succeeded, and never otherwise;
\* the one commit or rollback of the invocation comes after its unit of work
\* has returned; and no invocation issues both a commit and a rollback.
C19_BeginFnTerminate ==
    /\ \A q \in DOMAIN trace : \A i \in 1..Len(trace[q]) :
          LET t == trace[q]
              e == t[i]
              mine == ByExecAt(t, e.at)
          IN ExecEvent(e) =>
                /\ e.op \in {"begin", "fn", "commit", "rollback"}
                /\ e.op = "begin" => \A j \in mine : j >= i
                /\ e.op = "fn" =>
                      /\ i - 1 \in mine
                      /\ t[i - 1].op = "begin" /\ t[i - 1].err = NoErr /\ t[i - 1].tx = e.tx
                      /\ \A j \in mine : t[j].op = "fn" => j = i
                /\ e.op \in {"commit", "rollback"} =>
                      /\ \E j \in 1..(i - 1) : \E k \in mine :
                            /\ t[j].op = "fn_return" /\ t[j].at = e.at + 1
                            /\ t[k].op = "fn" /\ k < j
                      /\ \A j \in mine : t[j].op \in {"commit", "rollback"} => j = i
    /\ \A v \in ExecReturns :
          /\ v.nFn = (IF v.began THEN 1 ELSE 0)
          /\ ~(v.nCommit > 0 /\ v.nRollback > 0)

\* C19 witness: a Wrap request has run begin, handler, inner handler and the
\* outer rollback, in that order, and returned.
C19_Witness ==
    \E q \in DOMAIN trace :
        LET t == trace[q]
        IN /\ out[q].done /\ Len(t) >= 5
           /\ t[1].op = "begin" /\ t[1].err = NoErr /\ t[2].op = "fn"
           /\ ExecEvent(t[Len(t)]) /\ t[Len(t)].op = "rollback"
           /\ t[Len(t) - 1].op = "fn_return" /\ t[Len(t) - 1].at = t[Len(t)].at + 1
           /\ \E k \in 3..(Len(t) - 2) : t[k].op = "fn_return" /\ t[k].by = "Handler"

\* The handles request q has operated on: begun, handed to a handler,
\* committed or rolled back, by any frame of its call chain.
Touched(q) ==
    ({trace[q][i].tx : i \in 1..Len(trace[q])}
        \cup {stack[q][i].tx : i \in 1..Len(stack[q])}) \ {Nil}

\* C17: with requests running concurrently, every successful begin of a
\* request hands it a handle no other request has begun, and every handler
\* invocation, commit and rollback of a request is on a handle begun by its
\* own call chain: no handle is operated on by two requests.
C17_HandlesNotShared ==
    /\ \A q \in DOMAIN trace : \A h \in Touched(q) : howner[h] = q
    /\ \A q \in DOMAIN trace : \A i \in 1..Len(trace[q]) :
          (trace[q][i].op = "begin" /\ trace[q][i].err = NoErr) =>
              \A p \in DOMAIN trace \ {q} : trace[q][i].tx \notin Touched(p)
    /\ \A p \in DOMAIN trace : \A q \in DOMAIN trace \ {p} : Touched(p) \cap Touched(q) = {}
    /\ \A q \in DOMAIN wraps : \A i \in 1..Len(wraps[q]) :
          wraps[q][i].tx # Nil => howner[wraps[q][i].tx] = q

\* C17 witness: two requests are in flight at once, each with its own open
\* handle, one of them inside a nested reuse-path handler and the other
\* inside its fresh-path handler.
C17_Witness ==
    \E p \in DOMAIN stack : \E q \in DOMAIN stack \ {p} :
        /\ Len(stack[p]) = 5 /\ Top(p).kind = "Handler" /\ stack[p][4].pc = "reuse_serve"
        /\ Len(stack[q]) = 3 /\ Top(q).kind = "Handler"
        /\ Top(p).tx # Top(q).tx
        /\ hstate[Top(p).tx] = "open" /\ hstate[Top(q).tx] = "open"
        /\ howner[Top(p).tx] = p /\ howner[Top(q).tx] = q

====
